---- MODULE Spec2Model ----
(***************************************************************************)
(* A model of the AI-tutor service (src/app.py, src/models/ai_model.py):   *)
(* the diagnostic scorer, the policy selector, the retrieval / translation *)
(* adapters, the reply orchestrator and the in-memory profile store with   *)
(* its four HTTP operations.                                               *)
(*                                                                         *)
(* Representation.  A Python str is a sequence of one-character strings,   *)
(* so that lower(), split(), strip(), int() and the `in` substring test    *)
(* are computed, not assumed.  A float proficiency p is the integer        *)
(* 1000*p (thousandths): every score the scorer can produce is a multiple  *)
(* of 0.01, and the literals 0.33 / 0.7 / 0.5 of the code are 330 / 700 /  *)
(* 500.  A dict is a function whose DOMAIN is its key set.  User ids are   *)
(* opaque keys, taken from 1..NumUsers.                                    *)
(***************************************************************************)
EXTENDS Integers, Sequences, FiniteSets, TLC

\* PROFILES   the profile store: user id -> profile dict
\* config     which of the optional API keys the process was started with
\* last       the request just served with its response, or Idle
\* lastDiag   user id -> payload of the last diagnostic submitted for it
\*            since the id was last deleted (history)
\* deleted    the ids deleted and not submitted since (history)
\* threads    the locals of each request in progress, when requests overlap
\* submitted  the profile dicts built by diagnostic submissions (history)
\* lastWrite  user id -> the profile of the latest assignment to its entry
\*            (history)
VARIABLES PROFILES, config, last, lastDiag, deleted, threads, submitted, lastWrite

vars == <<PROFILES, config, last, lastDiag, deleted, threads, submitted, lastWrite>>

(* ------------------------------ bounds -------------------------------- *)

\* number of distinct user ids
NumUsers == 2
\* largest number of words in a chat message
MaxWords == 2
\* number of concurrently served requests
NumThreads == 2
\* how far outside [0,1] (in thousandths) policy_map is probed
ProfSlack == 300

UserIds == 1..NumUsers
Threads == 1..NumThreads

(* ------------------------- Python str helpers ------------------------- *)

UpperChars ==
    <<"A", "B", "C", "D", "E", "F", "G", "H", "I", "J", "K", "L", "M",
      "N", "O", "P", "Q", "R", "S", "T", "U", "V", "W", "X", "Y", "Z">>

LowerChars ==
    <<"a", "b", "c", "d", "e", "f", "g", "h", "i", "j", "k", "l", "m",
      "n", "o", "p", "q", "r", "s", "t", "u", "v", "w", "x", "y", "z">>

DigitChars ==
    <<"0", "1", "2", "3", "4", "5", "6", "7", "8", "9">>

\* str.lower() on one character
LowerOf ==
    [c \in {UpperChars[i] : i \in DOMAIN UpperChars} |->
        LowerChars[CHOOSE i \in DOMAIN UpperChars : UpperChars[i] = c]]

LowerChar(c) == IF c \in DOMAIN LowerOf THEN LowerOf[c] ELSE c

\* str.lower()
Lower(s) == [i \in DOMAIN s |-> LowerChar(s[i])]

\* the `w in s` substring test
Contains(s, w) ==
    \E i \in 1..(Len(s) - Len(w) + 1) : \A j \in 1..Len(w) : s[i + j - 1] = w[j]

\* any(w in s for w in ws)
ContainsAny(s, ws) == \E w \in ws : Contains(s, w)

IsSpace(c) == c \in {" ", "\t", "\n", "\r"}

\* len(s.split()): the number of maximal runs of non-whitespace
NumTokens(s) ==
    Cardinality({i \in DOMAIN s :
        /\ ~IsSpace(s[i])
        /\ (i = 1 \/ IsSpace(s[i - 1]))})

RECURSIVE LStrip(_)
LStrip(s) ==
    IF s # <<>> /\ IsSpace(Head(s)) THEN LStrip(Tail(s)) ELSE s

RECURSIVE RStrip(_)
RStrip(s) ==
    IF s # <<>> /\ IsSpace(s[Len(s)]) THEN RStrip(SubSeq(s, 1, Len(s) - 1)) ELSE s

\* str.strip()
Strip(s) == RStrip(LStrip(s))

IsDigit(c) == \E i \in DOMAIN DigitChars : DigitChars[i] = c

DigitValue(c) == (CHOOSE i \in DOMAIN DigitChars : DigitChars[i] = c) - 1

RECURSIVE DigitsValue(_)
DigitsValue(d) ==
    IF d = <<>> THEN 0
    ELSE 10 * DigitsValue(SubSeq(d, 1, Len(d) - 1)) + DigitValue(d[Len(d)])

\* int(s) for a str s: surrounding whitespace is ignored, one optional sign,
\* then one or more decimal digits; anything else raises ValueError
\* (ok = FALSE).  Digit-group underscores are not modelled and no input
\* of the model uses them.
ParseInt(s) ==
    LET t == Strip(s)
        signed == t # <<>> /\ Head(t) \in {"+", "-"}
        d == IF signed THEN Tail(t) ELSE t
        ok == d # <<>> /\ \A i \in DOMAIN d : IsDigit(d[i])
    IN  IF ~ok THEN [ok |-> FALSE, val |-> 0]
        ELSE [ok |-> TRUE,
              val |-> IF signed /\ Head(t) = "-" THEN 0 - DigitsValue(d)
                      ELSE DigitsValue(d)]

Min(a, b) == IF a < b THEN a ELSE b
Max(a, b) == IF a > b THEN a ELSE b

\* round(x, 2) on thousandths: to the nearest hundredth, ties to even
Round2(x) ==
    LET q == x \div 10
        r == x % 10
    IN  IF r < 5 THEN 10 * q
        ELSE IF r > 5 THEN 10 * (q + 1)
        ELSE IF q % 2 = 0 THEN 10 * q ELSE 10 * (q + 1)

\* dict.get(k, default)
Get(d, k, default) == IF k \in DOMAIN d THEN d[k] ELSE default

(* -------------------------- Diagnostic Scorer ------------------------- *)

Q1_KEYWORDS ==
    { <<"e", "n", "e", "r", "g", "y">>,
      <<"s", "u", "n">>,
      <<"f", "o", "o", "d">>,
      <<"g", "l", "u", "c", "o", "s", "e">>,
      <<"c", "o", "n", "v", "e", "r", "t">> }

Q2_KEYWORDS ==
    { <<"a", "c", "c", "e", "l", "e", "r", "a", "t", "i", "o", "n">>,
      <<"i", "n", "c", "r", "e", "a", "s", "e", "s">>,
      <<"i", "n", "c", "r", "e", "a", "s", "e">>,
      <<"m", "o", "r", "e">> }

\* mutant: the confidence is not clamped from below
score_diagnostic_noclamp(answers) ==
    LET a1 == Lower(Get(answers, "q1", <<>>))
        a2 == Lower(Get(answers, "q2", <<>>))
        s1 == IF ContainsAny(a1, Q1_KEYWORDS) THEN 350
              ELSE IF NumTokens(a1) >= 3 THEN 150 ELSE 0
        s2 == IF ContainsAny(a2, Q2_KEYWORDS) THEN 350
              ELSE IF NumTokens(a2) >= 2 THEN 100 ELSE 0
        conf == ParseInt(Get(answers, "q3", <<"3">>))
        s3 == IF conf.ok THEN 60 * Min(5, conf.val) ELSE 180
    IN  Min(1000, Round2(s1 + s2 + s3))

score_diagnostic(answers) ==
    LET a1 == Lower(Get(answers, "q1", <<>>))
        a2 == Lower(Get(answers, "q2", <<>>))
        s1 == IF ContainsAny(a1, Q1_KEYWORDS) THEN 350
              ELSE IF NumTokens(a1) >= 3 THEN 150 ELSE 0
        s2 == IF ContainsAny(a2, Q2_KEYWORDS) THEN 350
              ELSE IF NumTokens(a2) >= 2 THEN 100 ELSE 0
        conf == ParseInt(Get(answers, "q3", <<"3">>))
        conf_score == IF conf.ok THEN (Max(0, Min(5, conf.val)) * 1000) \div 5
                      ELSE 600
    IN  Min(1000, Round2(s1 + s2 + (3 * conf_score) \div 10))

(* --------------------------- Policy Selector -------------------------- *)

\* mutant: the upper threshold is tested with <= instead of <
policy_map_le(proficiency) ==
    IF proficiency < 330
    THEN [style |-> "step_by_step", depth |-> "deep", examples |-> 2, checks |-> TRUE]
    ELSE IF proficiency <= 700
    THEN [style |-> "balanced", depth |-> "medium", examples |-> 1, checks |-> TRUE]
    ELSE [style |-> "concise", depth |-> "shallow", examples |-> 1, checks |-> FALSE]

policy_map(proficiency) ==
    IF proficiency < 330
    THEN [style |-> "step_by_step", depth |-> "deep", examples |-> 2, checks |-> TRUE]
    ELSE IF proficiency < 700
    THEN [style |-> "balanced", depth |-> "medium", examples |-> 1, checks |-> TRUE]
    ELSE [style |-> "concise", depth |-> "shallow", examples |-> 1, checks |-> FALSE]

(* ------------------------------- inputs ------------------------------- *)

Q1Values ==
    { <<>>,
      <<"s", "u", "n", " ", "g", "i", "v", "e", "s", " ", "e", "n", "e", "r", "g", "y">>,
      <<"S", "U", "N">>,
      <<"p", "l", "a", "n", "t", "s", " ", "m", "a", "k", "e", " ", "l", "e", "a", "v", "e", "s">>,
      <<"a", " ", "b">>,
      <<"x">> }

Q2Values ==
    { <<>>,
      <<"i", "n", "c", "r", "e", "a", "s", "e">>,
      <<"i", "t", " ", "s", "l", "o", "w", "s">>,
      <<"l", "e", "s", "s">>,
      <<"M", "O", "R", "E">> }

Q3Values ==
    { <<"4">>,
      <<"-", "2">>,
      <<"9">>,
      <<" ", "3", " ">>,
      <<"a", "b", "c">>,
      <<"4", ".", "5">>,
      <<>>,
      <<"0">>,
      <<"+", "5">> }

AnswerKeys == {"q1", "q2", "q3"}

ValuesFor(k) == IF k = "q1" THEN Q1Values ELSE IF k = "q2" THEN Q2Values ELSE Q3Values

\* every answer dict over the sample values, keys possibly missing
AnswerSets ==
    UNION { { a \in [D -> Q1Values \cup Q2Values \cup Q3Values] :
                \A k \in D : a[k] \in ValuesFor(k) } : D \in SUBSET AnswerKeys }

\* the worked example of the specification
ExampleAnswers ==
    [q1 |-> <<"s", "u", "n", " ", "g", "i", "v", "e", "s", " ", "e", "n", "e", "r", "g", "y">>,
     q2 |-> <<"i", "n", "c", "r", "e", "a", "s", "e">>,
     q3 |-> <<"4">>]

\* proficiencies policy_map is probed with, in thousandths
PolicyInputs == (0 - ProfSlack)..(1000 + ProfSlack)

(* -------------------------- Retrieval Adapter ------------------------- *)

TIME_TRIGGERS ==
    { <<"t", "i", "m", "e">>,
      <<"d", "a", "t", "e">> }

NEWS_TRIGGERS ==
    { <<"n", "e", "w", "s">>,
      <<"h", "e", "a", "d", "l", "i", "n", "e", "s">> }

TECH_NEWS ==
    { <<"t", "e", "c", "h", " ", "n", "e", "w", "s">>,
      <<"t", "e", "c", "h", "n", "o", "l", "o", "g", "y", " ", "n", "e", "w", "s">> }

BUSINESS_NEWS ==
    { <<"b", "u", "s", "i", "n", "e", "s", "s", " ", "n", "e", "w", "s">> }

SEARCH_KEYWORDS ==
    { <<"e", "x", "p", "l", "a", "i", "n">>,
      <<"w", "h", "a", "t", " ", "i", "s">>,
      <<"h", "o", "w">>,
      <<"d", "e", "f", "i", "n", "e">>,
      <<"s", "h", "o", "w">>,
      <<"s", "o", "l", "v", "e">> }

EmptyDict == [k \in {} |-> 0]

\* sep.join(parts), parts a sequence of texts
RECURSIVE Join(_, _)
Join(parts, sep) ==
    IF parts = <<>> THEN <<>>
    ELSE IF Len(parts) = 1 THEN parts[1]
    ELSE parts[1] \o sep \o Join(Tail(parts), sep)

\* The search provider answers a request by raising (timeout, malformed
\* body: ok = FALSE) or with a JSON object that may lack "items", whose
\* items may lack keys.
SearchOutcomes ==
    { [ok |-> FALSE, json |-> EmptyDict],
      [ok |-> TRUE, json |-> EmptyDict],
      [ok |-> TRUE, json |-> [items |-> <<[title |-> "T1", link |-> "L1", snippet |-> "S1"],
                                          [link |-> "L2"]>>]] }

google_search(cfg, query, num_results, provider) ==
    IF ~cfg.GOOGLE_SEARCH_API_KEY \/ ~cfg.SEARCH_ENGINE_ID THEN <<>>
    ELSE IF ~provider.ok THEN <<>>
    ELSE LET items == Get(provider.json, "items", <<>>)
         IN  [i \in DOMAIN items |->
                [title |-> Get(items[i], "title", ""),
                 link |-> Get(items[i], "link", ""),
                 snippet |-> Get(items[i], "snippet", "")]]

get_current_datetime == <<"Current date and time is: ", "%Y-%m-%d %H:%M:%S">>

\* The news provider answers each of the two requests (the one asked for,
\* the English/US fallback) by raising or with a list of articles.
ArticleLists ==
    { <<>>,
      <<[title |-> "H1", source |-> [name |-> "N1"]], [source |-> EmptyDict]>> }

NewsOutcomes ==
    { [ok |-> FALSE, articles |-> <<>>] } \cup
    { [ok |-> TRUE, articles |-> a] : a \in ArticleLists }

NEWS_NOT_CONFIGURED == <<"News API key not configured. Cannot fetch news.">>
NEWS_NONE_FOUND == <<"No news headlines found for your request.">>
NEWS_ERROR == <<"An error occurred while fetching news: ", "str(e)">>

\* the articles[:5] headline lines
headlines_list(articles) ==
    [i \in 1..Min(5, Len(articles)) |->
        <<"**", DigitChars[i + 1], ". ", Get(articles[i], "title", "No Title"),
          "** (Source: ",
          Get(Get(articles[i], "source", EmptyDict), "name", "Unknown Source"), ")">>]

\* generate_reply never passes a query, so only get_top_headlines is called
get_real_time_news(cfg, lang, category, first, fallback) ==
    IF ~cfg.NEWSAPI_KEY THEN NEWS_NOT_CONFIGURED
    ELSE IF ~first.ok THEN NEWS_ERROR
    ELSE IF first.articles = <<>> /\ ~fallback.ok THEN NEWS_ERROR
    ELSE LET articles == IF first.articles = <<>> THEN fallback.articles
                         ELSE first.articles
         IN  IF articles = <<>> THEN NEWS_NONE_FOUND
             ELSE <<"Top Headlines:", "\n">> \o Join(headlines_list(articles), <<"\n">>)

(* ---------------------------- Prompt Builder -------------------------- *)

\* The rendered template is fixed text around five interpolated values;
\* the prompt is represented by those values.
build_prompt(student_profile, user_question, sources) ==
    [style |-> Get(Get(student_profile, "policy", EmptyDict), "style", "balanced"),
     proficiency |-> Get(student_profile, "proficiency", 500),
     lang |-> Get(student_profile, "language", "en"),
     user_question |-> user_question,
     sources_block |->
        IF sources = <<>> THEN <<>>
        ELSE <<"\n", "\n", "Sources:", "\n">> \o
             Join([i \in DOMAIN sources |->
                     <<"- ", sources[i].title, ": ", sources[i].link>>], <<"\n">>)]

(* -------------------------- Translation Adapter ----------------------- *)

\* what the translation provider returns for text and target on success
Translated(text, target_lang) == <<"translated", target_lang>> \o text

TranslationNote(target_lang) ==
    <<"\n", "\n", "(Translation to ", target_lang, " not available.)">>

translate(text, target_lang, provider_ok) ==
    IF target_lang = "" \/ target_lang = "en" THEN text
    ELSE IF provider_ok THEN Translated(text, target_lang)
    ELSE text \o TranslationNote(target_lang)

(* --------------------------- Reply Orchestrator ----------------------- *)

Langs == {"en", "hi"}

\* what the generation service does with a prompt: raise, or return text
GenTexts ==
    { <<" ", "o", "k", " ", "\n">>,
      <<"o", "k">> }

GenOutcomes ==
    { [ok |-> FALSE, text |-> <<>>] } \cup { [ok |-> TRUE, text |-> t] : t \in GenTexts }

default_profile(user_id, lang) ==
    [user_id |-> user_id, proficiency |-> 500, policy |-> policy_map(500),
     language |-> lang]

\* PROFILES.get(user_id, {...default...})
resolve_profile(profiles, user_id, lang) ==
    Get(profiles, user_id, default_profile(user_id, lang))

\* mutant: the news trigger is tested before the time trigger
branch_news_first(message_lower) ==
    IF ContainsAny(message_lower, NEWS_TRIGGERS) THEN "news"
    ELSE IF ContainsAny(message_lower, TIME_TRIGGERS) THEN "time"
    ELSE "general"

\* the if / elif / fall-through of generate_reply
branch(message_lower) ==
    IF ContainsAny(message_lower, TIME_TRIGGERS) THEN "time"
    ELSE IF ContainsAny(message_lower, NEWS_TRIGGERS) THEN "news"
    ELSE "general"

news_category(message_lower) ==
    IF ContainsAny(message_lower, TECH_NEWS) THEN "technology"
    ELSE IF ContainsAny(message_lower, BUSINESS_NEWS) THEN "business"
    ELSE "general"

\* mutant: the translation target is the lang of the request
translation_target_request(profile, lang) == lang

\* profile.get("language", "en")
translation_target(profile, lang) == Get(profile, "language", "en")

source_links(sources) ==
    <<"\n", "\n", "**Sources:**", "\n">> \o
    Join([i \in DOMAIN sources |->
            <<"- **[", sources[i].title, "](", sources[i].link, ")**">>], <<"\n">>)

\* mutant: the generated text is not stripped
general_reply_en_raw(text, sources) ==
    IF sources # <<>> THEN text \o source_links(sources) ELSE text

\* resp.text.strip(), then the source list when there are sources
general_reply_en(text, sources) ==
    IF sources # <<>> THEN Strip(text) \o source_links(sources) ELSE Strip(text)

\* mutant: the error record also carries the profile
error_record_with_profile(profile) == [error |-> "str(e)", profile |-> profile]

error_record(profile) == [error |-> "str(e)"]

\* generate_reply after the profile is resolved.  The result is the
\* returned dict (body) with the calls the request made, in order.
reply_with(cfg, profile, message, lang, env) ==
    LET message_lower == Lower(message)
        b == branch(message_lower)
        target == translation_target(profile, lang)
    IN  IF b = "time" THEN
            LET reply_en == get_current_datetime
            IN  [body |-> [reply |-> translate(reply_en, target, env.tr),
                           reply_en |-> reply_en, sources |-> <<>>,
                           profile |-> profile],
                 calls |-> <<[svc |-> "clock"],
                             [svc |-> "translate", target_lang |-> target]>>]
        ELSE IF b = "news" THEN
            LET category == news_category(message_lower)
                reply == get_real_time_news(cfg, lang, category, env.news,
                                            env.news_fallback)
            IN  [body |-> [reply |-> reply, reply_en |-> reply, sources |-> <<>>,
                           profile |-> profile],
                 calls |-> <<[svc |-> "news", lang |-> lang, category |-> category]>>]
        ELSE
            LET searched == ContainsAny(message_lower, SEARCH_KEYWORDS)
                sources == IF searched THEN google_search(cfg, message, 3, env.search)
                           ELSE <<>>
                prompt == build_prompt(profile, message, sources)
                calls == (IF searched
                          THEN <<[svc |-> "search", query |-> message, num_results |-> 3]>>
                          ELSE <<>>) \o <<[svc |-> "generate", prompt |-> prompt]>>
            IN  IF ~env.gen.ok THEN [body |-> error_record(profile), calls |-> calls]
                ELSE LET reply_en == general_reply_en(env.gen.text, sources)
                     IN  [body |-> [reply |-> translate(reply_en, target, env.tr),
                                    reply_en |-> reply_en, sources |-> sources,
                                    profile |-> profile],
                          calls |-> calls \o
                                    <<[svc |-> "translate", target_lang |-> target]>>]

generate_reply(cfg, profiles, user_id, message, lang, env) ==
    reply_with(cfg, resolve_profile(profiles, user_id, lang), message, lang, env)

(* ------------- the second copy of the orchestrator (ai_model) ---------- *)

\* ai_model.PROFILES: nothing in the repository writes to it
AI_PROFILES == EmptyDict

\* ai_model.google_search has no handler of its own: a provider failure
\* is raised to the caller
ai_google_search(cfg, query, num_results, provider) ==
    IF ~cfg.GOOGLE_SEARCH_API_KEY \/ ~cfg.SEARCH_ENGINE_ID
    THEN [raised |-> FALSE, results |-> <<>>]
    ELSE IF ~provider.ok THEN [raised |-> TRUE, results |-> <<>>]
    ELSE LET items == Get(provider.json, "items", <<>>)
         IN  [raised |-> FALSE,
              results |-> [i \in DOMAIN items |->
                             [title |-> Get(items[i], "title", ""),
                              link |-> Get(items[i], "link", ""),
                              snippet |-> Get(items[i], "snippet", "")]]]

\* ai_model.translate: the provider is tried only when its import succeeded
ai_translate(text, target_lang, translator_available, provider_ok) ==
    IF target_lang = "" \/ target_lang = "en" THEN text
    ELSE IF translator_available /\ provider_ok THEN Translated(text, target_lang)
    ELSE text \o TranslationNote(target_lang)

\* ai_model.generate_reply: no time or news path, no source list in reply_en
ai_generate_reply(cfg, user_id, message, lang, translator_available, env) ==
    LET profile == Get(AI_PROFILES, user_id, default_profile(user_id, lang))
        searched == ContainsAny(Lower(message), SEARCH_KEYWORDS)
        found == ai_google_search(cfg, message, 3, env.search)
        sources == IF searched /\ ~found.raised THEN found.results ELSE <<>>
        prompt == build_prompt(profile, message, sources)
        target == Get(profile, "language", "en")
        calls == (IF searched
                  THEN <<[svc |-> "search", query |-> message, num_results |-> 3]>>
                  ELSE <<>>) \o <<[svc |-> "generate", prompt |-> prompt]>>
    IN  IF ~env.gen.ok THEN [body |-> [error |-> "str(e)"], calls |-> calls]
        ELSE LET reply_en == Strip(env.gen.text)
             IN  [body |-> [reply |-> ai_translate(reply_en, target,
                                                    translator_available, env.tr),
                            reply_en |-> reply_en, sources |-> sources,
                            profile |-> profile],
                  calls |-> calls \o <<[svc |-> "translate", target_lang |-> target]>>]

(* ------------------------------ the store ------------------------------ *)

\* d[k] = v
Put(d, k, v) == [x \in DOMAIN d \cup {k} |-> IF x = k THEN v ELSE d[x]]

\* mutant: the entry is left in place
Pop_keep(d, k) == d

\* d.pop(k, None)
Pop(d, k) == [x \in DOMAIN d \ {k} |-> d[x]]

\* mutant: on a re-submission the policy of the stored profile is kept
diagnostic_profile_stale(user_id, answers, lang) ==
    LET prof == score_diagnostic(answers)
        policy == IF user_id \in DOMAIN PROFILES THEN PROFILES[user_id].policy
                  ELSE policy_map(prof)
    IN  [user_id |-> user_id, proficiency |-> prof, policy |-> policy, language |-> lang]

\* the profile diagnostic_route builds from its payload
diagnostic_profile(user_id, answers, lang) ==
    LET prof == score_diagnostic(answers)
        policy == policy_map(prof)
    IN  [user_id |-> user_id, proficiency |-> prof, policy |-> policy, language |-> lang]

Configs == [GOOGLE_SEARCH_API_KEY : BOOLEAN, SEARCH_ENGINE_ID : BOOLEAN, NEWSAPI_KEY : BOOLEAN]

Idle == [op |-> "idle"]

NoThreads == [t \in Threads |-> [pc |-> "idle"]]

InitStore ==
    /\ PROFILES = EmptyDict
    /\ lastDiag = EmptyDict
    /\ deleted = {}
    /\ threads = NoThreads
    /\ submitted = {}
    /\ lastWrite = EmptyDict

\* POST /diagnostic
diagnostic_route(user_id, answers, lang) ==
    LET profile == diagnostic_profile(user_id, answers, lang)
    IN  /\ last = Idle
        /\ PROFILES' = Put(PROFILES, user_id, profile)
        /\ lastDiag' = Put(lastDiag, user_id, [answers |-> answers, lang |-> lang])
        /\ deleted' = deleted \ {user_id}
        /\ last' = [op |-> "diagnostic", user_id |-> user_id, answers |-> answers,
                    lang |-> lang, body |-> [profile |-> profile]]
        /\ UNCHANGED <<config, threads, submitted, lastWrite>>

\* mutant: the default profile is stored when none is (setdefault for get)
chat_route_setdefault(user_id, message, lang, env) ==
    LET profile == resolve_profile(PROFILES, user_id, lang)
        r == generate_reply(config, PROFILES, user_id, message, lang, env)
    IN  /\ last = Idle
        /\ last' = [op |-> "chat", user_id |-> user_id, message |-> message,
                    lang |-> lang, env |-> env, profile |-> profile,
                    body |-> r.body, calls |-> r.calls]
        /\ PROFILES' = Put(PROFILES, user_id, profile)
        /\ UNCHANGED <<config, lastDiag, deleted, threads, submitted, lastWrite>>

\* POST /chat
chat_route(user_id, message, lang, env) ==
    LET profile == resolve_profile(PROFILES, user_id, lang)
        r == generate_reply(config, PROFILES, user_id, message, lang, env)
    IN  /\ last = Idle
        /\ last' = [op |-> "chat", user_id |-> user_id, message |-> message,
                    lang |-> lang, env |-> env, profile |-> profile,
                    body |-> r.body, calls |-> r.calls]
        /\ UNCHANGED <<PROFILES, config, lastDiag, deleted, threads, submitted, lastWrite>>

\* GET /profile/<user_id>
profile_route_get(user_id) ==
    /\ last = Idle
    /\ last' = [op |-> "get", user_id |-> user_id,
                body |-> Get(PROFILES, user_id, EmptyDict)]
    /\ UNCHANGED <<PROFILES, config, lastDiag, deleted, threads, submitted, lastWrite>>

\* DELETE /profile/<user_id>
profile_route_delete(user_id) ==
    /\ last = Idle
    /\ PROFILES' = Pop(PROFILES, user_id)
    /\ lastDiag' = [x \in DOMAIN lastDiag \ {user_id} |-> lastDiag[x]]
    /\ deleted' = deleted \cup {user_id}
    /\ last' = [op |-> "delete", user_id |-> user_id, body |-> [ok |-> TRUE]]
    /\ UNCHANGED <<config, threads, submitted, lastWrite>>

\* the response leaves the server, which waits for the next request
Respond ==
    /\ last # Idle
    /\ last' = Idle
    /\ UNCHANGED <<PROFILES, config, lastDiag, deleted, threads, submitted, lastWrite>>

\* a call of ai_model.generate_reply
ai_model_generate_reply(user_id, message, lang, translator_available, env) ==
    LET r == ai_generate_reply(config, user_id, message, lang, translator_available, env)
    IN  /\ last = Idle
        /\ last' = [op |-> "ai_chat", user_id |-> user_id, message |-> message,
                    lang |-> lang, env |-> env,
                    profile |-> default_profile(user_id, lang),
                    body |-> r.body, calls |-> r.calls]
        /\ UNCHANGED <<PROFILES, config, lastDiag, deleted, threads, submitted, lastWrite>>

(* ------------------------------- inputs ------------------------------- *)

\* the answer sets submitted to POST /diagnostic: one per policy tier
StoreAnswers ==
    { ExampleAnswers,
      EmptyDict,
      [q1 |-> <<"p", "l", "a", "n", "t", "s", " ", "m", "a", "k", "e", " ", "l", "e", "a", "v", "e", "s">>,
       q3 |-> <<" ", "3", " ">>] }

Vocabulary ==
    { <<"t", "i", "m", "e">>,
      <<"U", "p", "d", "a", "t", "e">>,
      <<"n", "e", "w", "s">>,
      <<"t", "e", "c", "h">>,
      <<"h", "o", "w">> }

\* the messages of exactly n words, separated by one space
RECURSIVE MessagesOf(_)
MessagesOf(n) ==
    IF n = 0 THEN {<<>>}
    ELSE IF n = 1 THEN Vocabulary
    ELSE {w \o <<" ">> \o m : w \in Vocabulary, m \in MessagesOf(n - 1)}

Messages == UNION {MessagesOf(n) : n \in 0..MaxWords}

\* one message per path: time, news, general with search, general without
CoreMessages ==
    { <<"t", "i", "m", "e">>, <<"n", "e", "w", "s">>, <<"h", "o", "w">>, <<"t", "e", "c", "h">> }

UnusedSearch == [ok |-> FALSE, json |-> EmptyDict]
UnusedNews == [ok |-> FALSE, articles |-> <<>>]

\* the generation service as a request that never calls it can find it:
\* failing or working
UncalledGen == {g \in GenOutcomes : g.ok => g.text = <<"o", "k">>}

\* The collaborators' behaviours that a request with this message can
\* observe; a collaborator the request never reaches is not varied.
EnvsFor(message) ==
    LET ml == Lower(message)
        b == branch(ml)
    IN  IF b = "time" THEN
            [gen : GenOutcomes, search : {UnusedSearch}, tr : BOOLEAN,
             news : {UnusedNews}, news_fallback : {UnusedNews}]
        ELSE IF b = "news" THEN
            [gen : UncalledGen, search : {UnusedSearch}, tr : {TRUE},
             news : NewsOutcomes, news_fallback : NewsOutcomes]
        ELSE
            [gen : GenOutcomes,
             search : IF ContainsAny(ml, SEARCH_KEYWORDS) THEN SearchOutcomes
                      ELSE {UnusedSearch},
             tr : BOOLEAN, news : {UnusedNews}, news_fallback : {UnusedNews}]

\* the behaviours a call of ai_model.generate_reply can observe
AiEnvsFor(message) ==
    [gen : GenOutcomes,
     search : IF ContainsAny(Lower(message), SEARCH_KEYWORDS) THEN SearchOutcomes
              ELSE {UnusedSearch},
     tr : BOOLEAN, news : {UnusedNews}, news_fallback : {UnusedNews}]

\* a smaller choice of behaviours: each collaborator works or fails
CoreEnvsFor(message) ==
    {e \in EnvsFor(message) :
        /\ e.gen.ok => e.gen.text = <<"o", "k">>
        /\ e.search.ok => Get(e.search.json, "items", <<>>) # <<>>
        /\ e.news.ok => e.news.articles # <<>>
        /\ e.news_fallback = UnusedNews}

(* -------------------- the service, one request at a time --------------- *)

Init ==
    /\ InitStore
    /\ config \in Configs
    /\ last = Idle

Next ==
    \/ \E u \in UserIds, a \in StoreAnswers, lang \in Langs : diagnostic_route(u, a, lang)
    \/ \E u \in UserIds, m \in CoreMessages, lang \in Langs :
          \E env \in CoreEnvsFor(m) : chat_route(u, m, lang, env)
    \/ \E u \in UserIds : profile_route_get(u)
    \/ \E u \in UserIds : profile_route_delete(u)
    \/ Respond

Spec == Init /\ [][Next]_vars

(* ------------- the chat paths, over every message of the vocabulary ---- *)

ChatUsers == {1}

ChatAnswers == {ExampleAnswers, EmptyDict}

NextChat ==
    \/ \E u \in ChatUsers, a \in ChatAnswers, lang \in Langs : diagnostic_route(u, a, lang)
    \/ \E u \in ChatUsers, m \in Messages, lang \in Langs :
          \E env \in EnvsFor(m) : chat_route(u, m, lang, env)
    \/ \E u \in ChatUsers, m \in CoreMessages, lang \in Langs, avail \in BOOLEAN :
          \E env \in AiEnvsFor(m) : ai_model_generate_reply(u, m, lang, avail, env)
    \/ Respond

SpecChat == Init /\ [][NextChat]_vars

(* ------------------- requests served concurrently -------------------- *)
(* Flask serves each request on its own thread.  A handler's reads and    *)
(* writes of PROFILES are single dict operations (get, item assignment,    *)
(* pop), each atomic under the interpreter lock; everything between them   *)
(* works on the thread's own locals.  A handler is therefore one step per  *)
(* dict operation.                                                         *)

ConcUsers == {1}

\* the diagnostic submissions that race: they differ in score and in language
ConcSubmissions ==
    { [answers |-> ExampleAnswers, lang |-> "en"],
      [answers |-> EmptyDict, lang |-> "hi"] }

ConcMessages == { <<"t", "e", "c", "h">> }

ConcEnvsFor(message) == {e \in CoreEnvsFor(message) : e.gen.ok /\ e.tr}

\* mutant: an existing entry is updated field by field and keeps its language
store_profile_update(profiles, user_id, profile) ==
    IF user_id \in DOMAIN profiles
    THEN Put(profiles, user_id,
             [profiles[user_id] EXCEPT !.proficiency = profile.proficiency,
                                       !.policy = profile.policy])
    ELSE Put(profiles, user_id, profile)

\* PROFILES[user_id] = profile
store_profile(profiles, user_id, profile) == Put(profiles, user_id, profile)

\* diagnostic_route up to the profile it builds
conc_diagnostic_build(t, user_id, answers, lang) ==
    LET profile == diagnostic_profile(user_id, answers, lang)
    IN  /\ threads[t].pc = "idle"
        /\ threads' = [threads EXCEPT ![t] =
                         [pc |-> "diag_store", user_id |-> user_id, profile |-> profile]]
        /\ submitted' = submitted \cup {profile}
        /\ UNCHANGED <<PROFILES, config, last, lastDiag, deleted, lastWrite>>

\* diagnostic_route: the assignment to PROFILES, and the response
conc_diagnostic_store(t) ==
    /\ threads[t].pc = "diag_store"
    /\ PROFILES' = store_profile(PROFILES, threads[t].user_id, threads[t].profile)
    /\ lastWrite' = Put(lastWrite, threads[t].user_id, threads[t].profile)
    /\ last' = [op |-> "diagnostic", user_id |-> threads[t].user_id,
                body |-> [profile |-> threads[t].profile]]
    /\ threads' = [threads EXCEPT ![t] = [pc |-> "idle"]]
    /\ UNCHANGED <<config, lastDiag, deleted, submitted>>

\* chat_route and generate_reply up to the read of PROFILES
conc_chat_read(t, user_id, message, lang) ==
    /\ threads[t].pc = "idle"
    /\ threads' = [threads EXCEPT ![t] =
                     [pc |-> "chat_reply", user_id |-> user_id, message |-> message,
                      lang |-> lang,
                      profile |-> resolve_profile(PROFILES, user_id, lang)]]
    /\ UNCHANGED <<PROFILES, config, last, lastDiag, deleted, submitted, lastWrite>>

\* generate_reply after the read, and the response
conc_chat_reply(t) ==
    /\ threads[t].pc = "chat_reply"
    /\ \E env \in ConcEnvsFor(threads[t].message) :
          LET r == reply_with(config, threads[t].profile, threads[t].message,
                              threads[t].lang, env)
          IN  last' = [op |-> "chat", user_id |-> threads[t].user_id,
                       message |-> threads[t].message, lang |-> threads[t].lang,
                       env |-> env, profile |-> threads[t].profile,
                       body |-> r.body, calls |-> r.calls]
    /\ threads' = [threads EXCEPT ![t] = [pc |-> "idle"]]
    /\ UNCHANGED <<PROFILES, config, lastDiag, deleted, submitted, lastWrite>>

\* GET /profile/<user_id>: one dict read
conc_profile_get(user_id) ==
    /\ last' = [op |-> "get", user_id |-> user_id,
                body |-> Get(PROFILES, user_id, EmptyDict)]
    /\ UNCHANGED <<PROFILES, config, lastDiag, deleted, threads, submitted, lastWrite>>

\* DELETE /profile/<user_id>: one dict pop
conc_profile_delete(user_id) ==
    /\ PROFILES' = Pop(PROFILES, user_id)
    /\ lastWrite' = [x \in DOMAIN lastWrite \ {user_id} |-> lastWrite[x]]
    /\ last' = [op |-> "delete", user_id |-> user_id, body |-> [ok |-> TRUE]]
    /\ UNCHANGED <<config, lastDiag, deleted, threads, submitted>>

InitConc ==
    /\ InitStore
    /\ config = [GOOGLE_SEARCH_API_KEY |-> TRUE, SEARCH_ENGINE_ID |-> TRUE,
                 NEWSAPI_KEY |-> TRUE]
    /\ last = Idle

NextConc ==
    \/ \E t \in Threads, u \in ConcUsers, sub \in ConcSubmissions :
          conc_diagnostic_build(t, u, sub.answers, sub.lang)
    \/ \E t \in Threads : conc_diagnostic_store(t)
    \/ \E t \in Threads, u \in ConcUsers, m \in ConcMessages, lang \in Langs :
          conc_chat_read(t, u, m, lang)
    \/ \E t \in Threads : conc_chat_reply(t)
    \/ \E u \in ConcUsers : conc_profile_get(u)
    \/ \E u \in ConcUsers : conc_profile_delete(u)

SpecConc == InitConc /\ [][NextConc]_vars

(* ------------- the two pure functions applied to their inputs --------- *)

InitFn ==
    /\ InitStore
    /\ config = [GOOGLE_SEARCH_API_KEY |-> TRUE, SEARCH_ENGINE_ID |-> TRUE, NEWSAPI_KEY |-> TRUE]
    /\ \/ \E answers \in AnswerSets : last = [op |-> "arg_answers", answers |-> answers]
       \/ \E p \in PolicyInputs : last = [op |-> "arg_proficiency", proficiency |-> p]

ApplyScore ==
    /\ last.op = "arg_answers"
    /\ last' = [op |-> "score_diagnostic", answers |-> last.answers,
                result |-> score_diagnostic(last.answers)]
    /\ UNCHANGED <<PROFILES, config, lastDiag, deleted, threads, submitted, lastWrite>>

ApplyPolicy ==
    /\ last.op = "arg_proficiency"
    /\ last' = [op |-> "policy_map", proficiency |-> last.proficiency,
                result |-> policy_map(last.proficiency)]
    /\ UNCHANGED <<PROFILES, config, lastDiag, deleted, threads, submitted, lastWrite>>

NextFn ==
    \/ ApplyScore
    \/ ApplyPolicy

SpecFn == InitFn /\ [][NextFn]_vars

(* ------------------------------ properties ---------------------------- *)

StepByStep == [style |-> "step_by_step", depth |-> "deep", examples |-> 2, checks |-> TRUE]
Balanced == [style |-> "balanced", depth |-> "medium", examples |-> 1, checks |-> TRUE]
Concise == [style |-> "concise", depth |-> "shallow", examples |-> 1, checks |-> FALSE]

IsError(body) == "error" \in DOMAIN body

Services(calls) == {calls[i].svc : i \in DOMAIN calls}

CallsTo(calls, svc) == {i \in DOMAIN calls : calls[i].svc = svc}

\* C1: every stored profile has policy = policy_map(proficiency), and its
\* proficiency is score_diagnostic of the answers of the last diagnostic
\* submitted for its user id, whatever requests were served.
C1_PolicyInSync ==
    \A u \in DOMAIN PROFILES :
        /\ PROFILES[u].policy = policy_map(PROFILES[u].proficiency)
        /\ u \in DOMAIN lastDiag
        /\ PROFILES[u].proficiency = score_diagnostic(lastDiag[u].answers)

\* C1 witness: a chat was served for a user whose profile was scored to the
\* boundary value 0.33, while another user has no profile.
C1_Witness ==
    /\ last.op = "chat"
    /\ last.user_id \in DOMAIN PROFILES
    /\ PROFILES[last.user_id].proficiency = 330
    /\ PROFILES[last.user_id].policy = Balanced
    /\ DOMAIN PROFILES # UserIds

\* C2: DELETE /profile/{id} answers {ok: true} whether or not a profile is
\* stored; from then until the next POST /diagnostic for that id no profile
\* is stored for it, GET /profile/{id} answers the empty object and a chat
\* from that id uses the default profile: proficiency 0.5, policy_map(0.5).
C2_AfterDelete ==
    /\ last.op = "delete" => last.body = [ok |-> TRUE]
    /\ \A u \in deleted : u \notin DOMAIN PROFILES
    /\ (last.op = "get" /\ last.user_id \in deleted) => last.body = EmptyDict
    /\ (last.op = "chat" /\ last.user_id \in deleted) =>
          /\ last.profile.proficiency = 500
          /\ last.profile.policy = policy_map(500)
          /\ last.profile.user_id = last.user_id
          /\ ~IsError(last.body) => last.body.profile = last.profile

\* C2 witness: a chat is answered for a deleted id with the default profile
\* while another id still has its stored profile.
C2_Witness ==
    /\ last.op = "chat"
    /\ last.user_id \in deleted
    /\ ~IsError(last.body)
    /\ last.body.profile.proficiency = 500
    /\ PROFILES # EmptyDict

EntryOf(profiles, u) == IF u \in DOMAIN profiles THEN <<profiles[u]>> ELSE <<>>

\* C3: POST /chat and GET /profile leave the store as it is on every path;
\* a chat from an id without a profile uses the default profile and stores
\* nothing; the entry of an id changes only in a POST /diagnostic or a
\* DELETE /profile for that id.
C3_Frame ==
    [][ /\ last'.op \in {"chat", "get"} =>
              /\ PROFILES' = PROFILES
              /\ last'.user_id \notin DOMAIN PROFILES =>
                    /\ last'.op = "chat" =>
                          last'.profile = default_profile(last'.user_id, last'.lang)
                    /\ last'.op = "get" => last'.body = EmptyDict
                    /\ last'.user_id \notin DOMAIN PROFILES'
        /\ \A u \in UserIds :
              EntryOf(PROFILES', u) # EntryOf(PROFILES, u) =>
                    /\ last'.op \in {"diagnostic", "delete"}
                    /\ last'.user_id = u ]_vars

\* C3 witness: a chat from an id without a profile ended in the generation
\* error, the id still has no profile and another id has one.
C3_Witness ==
    /\ last.op = "chat"
    /\ IsError(last.body)
    /\ last.user_id \notin DOMAIN PROFILES
    /\ PROFILES # EmptyDict

\* C7: policy_map gives the step_by_step tier below 0.33, the balanced tier
\* from 0.33 up to but not including 0.7 and the concise tier from 0.7 on,
\* also outside [0,1]; 0.329 is step_by_step, 0.33 and 0.699 are balanced,
\* 0.7 is concise.
C7_PolicySteps ==
    last.op = "policy_map" =>
        /\ last.proficiency < 330 => last.result = StepByStep
        /\ (330 <= last.proficiency /\ last.proficiency < 700) => last.result = Balanced
        /\ last.proficiency >= 700 => last.result = Concise
        /\ last.proficiency = 329 => last.result.style = "step_by_step"
        /\ last.proficiency \in {330, 699} => last.result.style = "balanced"
        /\ last.proficiency = 700 => last.result.style = "concise"

\* C7 witness: policy_map was applied to the boundary 0.7 and gave concise.
C7_Witness ==
    /\ last.op = "policy_map"
    /\ last.proficiency = 700
    /\ last.result = Concise

\* the score C8 states, from the answers
C8_Stated(answers) ==
    LET q1 == Lower(Get(answers, "q1", <<>>))
        q2 == Lower(Get(answers, "q2", <<>>))
        c1 == IF \E w \in Q1_KEYWORDS : Contains(q1, w) THEN 350
              ELSE IF NumTokens(q1) >= 3 THEN 150 ELSE 0
        c2 == IF \E w \in Q2_KEYWORDS : Contains(q2, w) THEN 350
              ELSE IF NumTokens(q2) >= 2 THEN 100 ELSE 0
        parsed == "q3" \in DOMAIN answers /\ ParseInt(answers["q3"]).ok
        q3 == IF parsed THEN ParseInt(answers["q3"]).val ELSE 0
        clamped == IF q3 < 0 THEN 0 ELSE IF q3 > 5 THEN 5 ELSE q3
        conf == IF parsed THEN 200 * clamped ELSE 600
    IN  Round2(c1 + c2 + (300 * conf) \div 1000)

\* C8: for every answer set (keys missing, confidence negative or above 5,
\* q3 not an integer) score_diagnostic is in [0,1] and equals
\* c1 + c2 + 0.3*conf rounded to 2 decimals; the example answers score 0.94
\* and select the concise tier.
C8_Score ==
    last.op = "score_diagnostic" =>
        /\ last.result \in 0..1000
        /\ last.result = C8_Stated(last.answers)
        /\ last.answers = ExampleAnswers =>
              /\ last.result = 940
              /\ policy_map(last.result).style = "concise"

\* C8 witness: an answer set without q1 and with the confidence -2 was
\* scored: 0.35 for q2 and nothing for the confidence.
C8_Witness ==
    /\ last.op = "score_diagnostic"
    /\ "q1" \notin DOMAIN last.answers
    /\ "q3" \in DOMAIN last.answers
    /\ last.answers["q3"] = <<"-", "2">>
    /\ last.result = 350

HasTimeTrigger(message) ==
    LET ml == Lower(message)
    IN  Contains(ml, <<"t", "i", "m", "e">>) \/ Contains(ml, <<"d", "a", "t", "e">>)

HasNewsTrigger(message) ==
    LET ml == Lower(message)
    IN  \/ Contains(ml, <<"n", "e", "w", "s">>)
        \/ Contains(ml, <<"h", "e", "a", "d", "l", "i", "n", "e", "s">>)

HasSearchKeyword(message) ==
    LET ml == Lower(message) IN \E w \in SEARCH_KEYWORDS : Contains(ml, w)

\* C4: dispatch has the priority time > news > general.  A message with
\* "time" or "date" is answered with the timestamp and no sources and calls
\* none of news, search, generation, whatever else it contains; any other
\* message with "news" or "headlines" calls the news adapter and neither
\* search nor generation; only a message with neither trigger reaches
\* search and generation.
C4_Dispatch ==
    last.op = "chat" =>
        LET svcs == Services(last.calls)
            timed == HasTimeTrigger(last.message)
            news == HasNewsTrigger(last.message)
        IN  /\ timed =>
                  /\ ~IsError(last.body)
                  /\ last.body.reply_en = get_current_datetime
                  /\ last.body.sources = <<>>
                  /\ last.profile.language = "en" => last.body.reply = get_current_datetime
                  /\ svcs \cap {"news", "search", "generate"} = {}
            /\ (~timed /\ news) =>
                  /\ "news" \in svcs
                  /\ svcs \cap {"search", "generate"} = {}
            /\ (~timed /\ ~news) <=> "generate" \in svcs
            /\ "search" \in svcs => "generate" \in svcs

\* C4 witness: a message with a time trigger, a news trigger and a search
\* keyword ("Update news" or the like, "how time", ...) was answered with
\* the timestamp.
C4_Witness ==
    /\ last.op = "chat"
    /\ Contains(Lower(last.message), <<"d", "a", "t", "e">>)
    /\ HasNewsTrigger(last.message)
    /\ ~last.env.gen.ok
    /\ last.body.reply_en = get_current_datetime

SearchUnavailable ==
    \/ ~config.GOOGLE_SEARCH_API_KEY
    \/ ~config.SEARCH_ENGINE_ID
    \/ ~last.env.search.ok

NewsUnavailable ==
    \/ ~config.NEWSAPI_KEY
    \/ ~last.env.news.ok
    \/ (last.env.news.articles = <<>> /\ ~last.env.news_fallback.ok)

\* C5: a chat ends in an error record exactly when its generation call
\* fails, and the record has none of reply, reply_en, sources, profile.  A
\* failed or unconfigured search leaves no sources and the request goes on
\* to generation; a failed translation gives reply = reply_en + the note; a
\* failed or unconfigured news provider gives an explanatory string as the
\* reply; none of the three gives an error record.
C5_Failures ==
    last.op = "chat" =>
        LET svcs == Services(last.calls)
            body == last.body
        IN  /\ IsError(body) <=> ("generate" \in svcs /\ ~last.env.gen.ok)
            /\ IsError(body) =>
                  DOMAIN body \cap {"reply", "reply_en", "sources", "profile"} = {}
            /\ ("search" \in svcs /\ SearchUnavailable) =>
                  /\ "generate" \in svcs
                  /\ \A i \in CallsTo(last.calls, "generate") :
                        last.calls[i].prompt.sources_block = <<>>
                  /\ last.env.gen.ok => (~IsError(body) /\ body.sources = <<>>)
            /\ \A i \in CallsTo(last.calls, "translate") :
                  (last.calls[i].target_lang \notin {"", "en"} /\ ~last.env.tr) =>
                      /\ ~IsError(body)
                      /\ body.reply =
                            body.reply_en \o <<"\n", "\n", "(Translation to ",
                                               last.calls[i].target_lang,
                                               " not available.)">>
            /\ ("news" \in svcs /\ NewsUnavailable) =>
                  /\ ~IsError(body)
                  /\ body.reply \in {NEWS_NOT_CONFIGURED, NEWS_ERROR}

\* C5 witness: the search failed and the translation failed in one request,
\* which still returned a reply with the note and no sources.
C5_Witness ==
    /\ last.op = "chat"
    /\ "search" \in Services(last.calls)
    /\ config.GOOGLE_SEARCH_API_KEY /\ config.SEARCH_ENGINE_ID /\ ~last.env.search.ok
    /\ ~last.env.tr
    /\ ~IsError(last.body)
    /\ last.body.sources = <<>>
    /\ last.body.reply # last.body.reply_en

\* what C6 promises of a reply
C6_Promise ==
    /\ ~IsError(last.body)
    /\ last.body.sources = <<>>
    /\ last.body.reply_en = Strip(last.env.gen.text)
    /\ last.profile.language = "en" => last.body.reply = last.body.reply_en

\* C6 as stated: every message with no search keyword and no news keyword,
\* with a working generation backend, gets sources = [], reply_en = the
\* generation output trimmed, and reply = reply_en when the language is en.
C6_AsStated ==
    (/\ last.op \in {"chat", "ai_chat"}
     /\ ~HasSearchKeyword(last.message)
     /\ ~HasNewsTrigger(last.message)
     /\ last.env.gen.ok) => C6_Promise

\* C6 amended: the same, for the messages that also contain neither "time"
\* nor "date".
C6_Amended ==
    (/\ last.op \in {"chat", "ai_chat"}
     /\ ~HasSearchKeyword(last.message)
     /\ ~HasNewsTrigger(last.message)
     /\ ~HasTimeTrigger(last.message)
     /\ last.env.gen.ok) => C6_Promise

\* C6 witness: a message without any keyword was answered from a generation
\* output with surrounding whitespace, for a stored profile in English and a
\* request in another language.
C6_Witness ==
    /\ last.op = "chat"
    /\ last.message = <<"t", "e", "c", "h", " ", "t", "e", "c", "h">>
    /\ last.env.gen.ok
    /\ last.env.gen.text # Strip(last.env.gen.text)
    /\ last.body.reply_en = <<"o", "k">>
    /\ last.user_id \in DOMAIN PROFILES
    /\ last.lang = "hi"
    /\ last.body.reply = last.body.reply_en

\* C10: on the time path and the general path the translation target is
\* the language of the resolved profile: the language of the user's last
\* diagnostic when a profile is stored, the lang of the request only when
\* none is.  On the news path nothing is translated, reply = reply_en and
\* the news adapter gets the lang of the request.
C10_TranslationTarget ==
    last.op = "chat" =>
        LET stored == last.user_id \in DOMAIN PROFILES
            expected == IF stored THEN lastDiag[last.user_id].lang ELSE last.lang
            translations == CallsTo(last.calls, "translate")
            onNewsPath == ~HasTimeTrigger(last.message) /\ HasNewsTrigger(last.message)
        IN  /\ \A i \in translations : last.calls[i].target_lang = expected
            /\ (~onNewsPath /\ ~IsError(last.body)) =>
                  /\ translations # {}
                  /\ expected = "en" => last.body.reply = last.body.reply_en
                  /\ (expected # "en" /\ last.env.tr) =>
                        last.body.reply = Translated(last.body.reply_en, expected)
            /\ onNewsPath =>
                  /\ translations = {}
                  /\ last.body.reply = last.body.reply_en
                  /\ \A i \in CallsTo(last.calls, "news") : last.calls[i].lang = last.lang
                  /\ CallsTo(last.calls, "news") # {}

\* C10 witness: a request with lang en for a user whose diagnostic recorded
\* hi was answered on the time path with a reply translated to hi.
C10_Witness ==
    /\ last.op = "chat"
    /\ last.lang = "en"
    /\ last.user_id \in DOMAIN PROFILES
    /\ PROFILES[last.user_id].language = "hi"
    /\ HasTimeTrigger(last.message)
    /\ last.body.reply = Translated(get_current_datetime, "hi")

\* the profiles a request for user_id sent with lang may observe
WholeProfiles(user_id, lang) ==
    {p \in submitted : p.user_id = user_id} \cup {default_profile(user_id, lang)}

\* C9: however the requests for one user id interleave, the profile a chat
\* or a GET observes is the default (or empty) one or exactly a profile
\* built by one diagnostic submission, never the proficiency of one with
\* the policy or language of another; the stored profile is that of the
\* diagnostic that wrote last.
C9_WholeRecords ==
    /\ \A u \in DOMAIN PROFILES :
          /\ PROFILES[u] \in submitted
          /\ PROFILES[u] = lastWrite[u]
    /\ \A t \in Threads :
          threads[t].pc = "chat_reply" =>
              threads[t].profile \in WholeProfiles(threads[t].user_id, threads[t].lang)
    /\ last.op = "chat" =>
          /\ last.profile \in WholeProfiles(last.user_id, last.lang)
          /\ ~IsError(last.body) => last.body.profile = last.profile
    /\ last.op = "get" =>
          \/ last.body = EmptyDict
          \/ last.body \in {p \in submitted : p.user_id = last.user_id}

\* C9 witness: a chat answered with the profile of an earlier submission
\* while a later submission is already stored and a third request is about
\* to overwrite it.
C9_Witness ==
    /\ last.op = "chat"
    /\ last.user_id \in DOMAIN PROFILES
    /\ last.profile \in submitted
    /\ last.profile # PROFILES[last.user_id]
    /\ \E t \in Threads :
          /\ threads[t].pc = "diag_store"
          /\ threads[t].profile # PROFILES[last.user_id]

====
